---- MODULE Spec2Model ----
(***************************************************************************)
(* Console interceptor of pluno-logs: the value serializer                 *)
(* (serializeForPostMessage / serialize / getErrorDetails) and the         *)
(* adapters that call it (interceptConsole, the 'error' and                *)
(* 'unhandledrejection' listeners), src/main.js.  The earlier variant of   *)
(* the script (src/unnamed/part_000) is modelled next to it.               *)
(***************************************************************************)
EXTENDS Integers, Sequences, FiniteSets, TLC

\* ------------------------------------------------------------------------
\* Bounds of the model and constants of the program
\* ------------------------------------------------------------------------
NumObjs == 4            \* composites (plain objects / arrays) of the input graph
MaxArgs == 2            \* arguments of one console call

DefaultDepth == 0       \* serializeForPostMessage(arg, depth = 0, ...)
DefaultMaxDepth == 3    \* serializeForPostMessage(arg, ..., maxDepth = 3)
SourceCap == 200        \* value.toString().substring(0, 200)

DepthMarker == "[Max Depth Exceeded]"
CircularMarker == "[Circular Reference]"
AccessMarker == "[Unable to access property]"
UnknownMarker == "[Unknown Type]"

\* ------------------------------------------------------------------------
\* JavaScript values.  A value is a tagged record; objects live in a heap and
\* are referred to by identity (Ref).  PlainObj / PlainSeq are the fresh
\* mappings and sequences the serializer builds; they never occur in inputs.
\* ------------------------------------------------------------------------
Undefined == [t |-> "undefined"]
Null == [t |-> "null"]
Num(n) == [t |-> "number", n |-> n]
NaNVal == [t |-> "nan"]
Infinity(pos) == [t |-> "infinity", pos |-> pos]
Str(s) == [t |-> "string", s |-> s]
Bool(b) == [t |-> "boolean", b |-> b]
Sym(d) == [t |-> "symbol", d |-> d]
Ref(i) == [t |-> "ref", id |-> i]
PlainObj(fields) == [t |-> "plain", f |-> fields]
PlainSeq(items) == [t |-> "list", e |-> items]

Field(k, v) == [k |-> k, v |-> v]
Prop(k, v) == [k |-> k, v |-> v, thr |-> FALSE]
ThrowingProp(k) == [k |-> k, v |-> Undefined, thr |-> TRUE]

\* Object ids: the composites 1..NumObjs, then the host objects.
ErrId == NumObjs + 1
DateId == NumObjs + 2
BadDateId == NumObjs + 3
FnId == NumObjs + 4
NodeId == NumObjs + 5
RegId == NumObjs + 6
PromId == NumObjs + 7
Composites == 1..NumObjs
HostIds == {ErrId, DateId, BadDateId, FnId, NodeId, RegId, PromId}
Ids == Composites \cup HostIds

GetterMsg == "boom"
InvalidTimeMsg == "Invalid time value"
SymbolMsg == "Cannot convert a Symbol value to a string"

\* typeof value
TypeOf(h, value) ==
    CASE value.t = "undefined" -> "undefined"
      [] value.t = "null" -> "object"
      [] value.t \in {"number", "nan", "infinity"} -> "number"
      [] value.t = "string" -> "string"
      [] value.t = "boolean" -> "boolean"
      [] value.t = "symbol" -> "symbol"
      [] value.t = "ref" -> IF h[value.id].kind = "Function" THEN "function" ELSE "object"
      [] OTHER -> "object"

\* JavaScript truthiness, as used by  a || b
Truthy(value) ==
    CASE value.t \in {"undefined", "null", "nan"} -> FALSE
      [] value.t = "number" -> value.n # 0
      [] value.t = "string" -> value.s # ""
      [] value.t = "boolean" -> value.b
      [] OTHER -> TRUE

OrElse(value, dflt) == IF Truthy(value) THEN value ELSE dflt

\* Results of evaluating something that may throw.
Ok(v, st) == [v |-> v, st |-> st, ok |-> TRUE, msg |-> ""]
Thrown(msg, st) == [v |-> Undefined, st |-> st, ok |-> FALSE, msg |-> msg]

\* const x = v; F(x): v is evaluated once and F gets its value.
Bind(v, F(_)) == CHOOSE y \in {F(x) : x \in {v}} : TRUE

\* h[id].props is Object.getOwnPropertyNames(value) with the property behind
\* each name: the own string keys, in creation order.
HasOwn(h, id, key) == \E i \in 1..Len(h[id].props) : h[id].props[i].k = key

OwnProp(h, id, key) ==
    h[id].props[CHOOSE i \in 1..Len(h[id].props) : h[id].props[i].k = key]

\* What the prototype chain gives for a key that is not an own property: the
\* accessors of the object's class (attrs), Error.prototype.name and .message.
Inherited(h, id, key) ==
    IF \E i \in 1..Len(h[id].attrs) : h[id].attrs[i].k = key
    THEN h[id].attrs[CHOOSE i \in 1..Len(h[id].attrs) : h[id].attrs[i].k = key].v
    ELSE IF h[id].kind = "Error" /\ key = "name" THEN Str("Error")
    ELSE IF h[id].kind = "Error" /\ key = "message" THEN Str("")
    ELSE Undefined

\* value[key]: runs the getter when the property is an accessor.
Get(h, id, key, st) ==
    IF HasOwn(h, id, key)
    THEN IF OwnProp(h, id, key).thr THEN Thrown(GetterMsg, st)
         ELSE Ok(OwnProp(h, id, key).v, st)
    ELSE Ok(Inherited(h, id, key), st)

\* obj[key] = v on a fresh mapping: overwrite in place, or append.
SetField(fields, key, v) ==
    IF \E i \in 1..Len(fields) : fields[i].k = key
    THEN [i \in 1..Len(fields) |-> IF fields[i].k = key THEN Field(key, v) ELSE fields[i]]
    ELSE Append(fields, Field(key, v))

HasField(out, key) == out.t = "plain" /\ \E i \in 1..Len(out.f) : out.f[i].k = key

FieldOf(out, key) == out.f[CHOOSE i \in 1..Len(out.f) : out.f[i].k = key].v

\* ------------------------------------------------------------------------
\* String(value), the coercion serializeForPostMessage applies in its catch
\* block.  Array.prototype.toString joins the elements; an element that is a
\* symbol cannot be converted, an array met again inside itself gives "".
\* ------------------------------------------------------------------------
RECURSIVE StringOf(_, _, _)
RECURSIVE JoinFrom(_, _, _, _)

JoinFrom(h, id, i, visiting) ==
    IF i > Len(h[id].props) THEN Ok("", {})
    ELSE LET p == h[id].props[i] IN
         Bind(IF p.thr THEN Thrown(GetterMsg, {})
              ELSE IF p.v.t \in {"undefined", "null"} THEN Ok("", {})
              ELSE IF p.v.t = "symbol" THEN Thrown(SymbolMsg, {})
              ELSE StringOf(h, p.v, visiting),
              LAMBDA head :
                  IF ~head.ok THEN head
                  ELSE Bind(JoinFrom(h, id, i + 1, visiting),
                            LAMBDA rest :
                                IF ~rest.ok THEN rest
                                ELSE Ok(head.v \o (IF i < Len(h[id].props) THEN "," ELSE "")
                                               \o rest.v, {})))

StringOf(h, value, visiting) ==
    CASE value.t = "undefined" -> Ok("undefined", {})
      [] value.t = "null" -> Ok("null", {})
      [] value.t = "number" -> Ok(ToString(value.n), {})
      [] value.t = "nan" -> Ok("NaN", {})
      [] value.t = "infinity" -> Ok(IF value.pos THEN "Infinity" ELSE "-Infinity", {})
      [] value.t = "string" -> Ok(value.s, {})
      [] value.t = "boolean" -> Ok(IF value.b THEN "true" ELSE "false", {})
      [] value.t = "symbol" -> Ok("Symbol(" \o value.d \o ")", {})
      [] value.t = "ref" ->
            LET o == h[value.id] IN
            IF o.strThrows THEN Thrown(GetterMsg, {})
            ELSE CASE o.kind = "Array" ->
                        IF value.id \in visiting THEN Ok("", {})
                        ELSE JoinFrom(h, value.id, 1, visiting \cup {value.id})
                   [] o.kind = "Error" -> Ok("Error: failure", {})
                   [] o.kind = "Date" -> Ok(IF o.valid THEN "Thu Jan 01 1970" ELSE "Invalid Date", {})
                   [] o.kind = "RegExp" -> Ok("/ab+c/gi", {})
                   [] o.kind = "Promise" -> Ok("[object Promise]", {})
                   [] o.kind = "Element" -> Ok("[object HTMLDivElement]", {})
                   [] o.kind = "Node" -> Ok("[object Text]", {})
                   [] o.kind = "Function" -> Ok("function f() {}", {})
                   [] OTHER -> Ok("[object Object]", {})
      [] OTHER -> Ok("[object Object]", {})

\* ------------------------------------------------------------------------
\* serializeForPostMessage and its inner functions.  st is the state of one
\* top-level call: seen (the WeakSet), and two observation fields that the
\* code does not have: calls (invocations of serialize) and log (for every
\* invocation, in call order: the value, the depth, and what was returned at
\* once, or Descend when the value's children are serialized, or Raise when
\* the invocation threw before it got that far).
\* ------------------------------------------------------------------------
Descend == [t |-> "descend"]
Raise == [t |-> "raise"]

Enter(st) == [st EXCEPT !.calls = @ + 1]

Note(st, value, currentDepth, out) ==
    [st EXCEPT !.log = Append(@, [d |-> currentDepth, v |-> value, out |-> out])]

Leaf(st, value, currentDepth, out) == Ok(out, Note(st, value, currentDepth, out))

Fail(st, value, currentDepth, msg) == Thrown(msg, Note(st, value, currentDepth, Raise))

\* const seen = new WeakSet();   prev: what the previous call's set held
ReuseWeakSet(prev) == prev
NewWeakSet(prev) == {}

\* if (currentDepth > maxDepth)
DepthExceededOffByOne(currentDepth, maxDepth) == currentDepth >= maxDepth
DepthExceeded(currentDepth, maxDepth) == currentDepth > maxDepth

\* seen.has(value)
NeverSeen(st, id) == FALSE
SeenHas(st, id) == id \in st.seen

\* seen.add(value)
SeenAddSkipped(st, id) == st
SeenAdd(st, id) == [st EXCEPT !.seen = @ \cup {id}]

\* !['name', 'message', 'stack'].includes(key)
NoExtraKey(key) == FALSE
IsExtraKey(key) == key \notin {"name", "message", "stack"}

\* the for loop of getErrorDetails over Object.getOwnPropertyNames(error)
RECURSIVE CaptureProps(_, _, _, _)
CaptureProps(h, id, i, errorObj) ==
    IF i > Len(h[id].props) THEN errorObj
    ELSE LET p == h[id].props[i] IN
         IF IsExtraKey(p.k)
         THEN CaptureProps(h, id, i + 1,
                  SetField(errorObj, p.k, IF p.thr THEN Str(AccessMarker) ELSE p.v))
         ELSE CaptureProps(h, id, i + 1, errorObj)

getErrorDetails(h, id, st) ==
    LET name == Get(h, id, "name", st)
        message == Get(h, id, "message", st)
        stack == Get(h, id, "stack", st)
    IN IF ~name.ok THEN name
       ELSE IF ~message.ok THEN message
       ELSE IF ~stack.ok THEN stack
       ELSE Ok(PlainObj(CaptureProps(h, id, 1,
                   << Field("__type", Str("Error")), Field("name", name.v),
                      Field("message", message.v), Field("stack", stack.v) >>)), st)

\* value instanceof Error || (value && value.constructor && value.constructor.name === 'Error')
IsErrorLike(h, value, st) ==
    IF value.t # "ref" THEN Ok(FALSE, st)
    ELSE IF h[value.id].kind = "Error" THEN Ok(TRUE, st)
    ELSE IF h[value.id].ctor = "throws" THEN Thrown(GetterMsg, st)
    ELSE Ok(h[value.id].ctor = "Error", st)

SymbolTag(value) == Str("[Symbol: " \o (IF value.d # "" THEN value.d ELSE "unknown") \o "]")

UnableToSerialize(msg) == Str("[Unable to serialize: " \o msg \o "]")

\* value.toString().substring(0, 200) + (value.toString().length > 200 ? '...' : '')
FunctionSource(o) ==
    IF o.srcLen > SourceCap THEN Str("function f() { /* first 200 */...")
    ELSE Str("function f() {}")

RECURSIVE serialize(_, _, _, _, _)
RECURSIVE MapItems(_, _, _, _, _, _, _)
RECURSIVE SerializeProps(_, _, _, _, _, _, _)

\* value.map(item => serialize(item, currentDepth + 1)): nothing is caught here
MapItems(h, maxDepth, id, i, currentDepth, st, acc) ==
    IF i > Len(h[id].props) THEN Ok(PlainSeq(acc), st)
    ELSE LET p == h[id].props[i] IN
         IF p.thr THEN Thrown(GetterMsg, st)
         ELSE Bind(serialize(h, maxDepth, p.v, currentDepth + 1, st),
                   LAMBDA r :
                       IF ~r.ok THEN r
                       ELSE MapItems(h, maxDepth, id, i + 1, currentDepth, r.st,
                                     Append(acc, r.v)))

\* for (const key of props) { try { obj[key] = serialize(value[key], ...) } catch ... }
SerializeProps(h, maxDepth, id, i, currentDepth, st, obj) ==
    IF i > Len(h[id].props) THEN Ok(PlainObj(obj), st)
    ELSE LET p == h[id].props[i] IN
         IF p.thr
         THEN SerializeProps(h, maxDepth, id, i + 1, currentDepth, st,
                             SetField(obj, p.k, UnableToSerialize(GetterMsg)))
         ELSE Bind(serialize(h, maxDepth, p.v, currentDepth + 1, st),
                   LAMBDA r :
                       SerializeProps(h, maxDepth, id, i + 1, currentDepth, r.st,
                           SetField(obj, p.k,
                                    IF r.ok THEN r.v ELSE UnableToSerialize(r.msg))))

serialize(h, maxDepth, value, currentDepth, st0) ==
    LET st == Enter(st0) IN
    IF DepthExceeded(currentDepth, maxDepth) THEN Leaf(st, value, currentDepth, Str(DepthMarker))
    ELSE IF value.t \in {"null", "undefined"} THEN Leaf(st, value, currentDepth, value)
    ELSE LET isErr == IsErrorLike(h, value, st) IN
    IF ~isErr.ok THEN Fail(st, value, currentDepth, isErr.msg)
    ELSE IF isErr.v
    THEN Bind(getErrorDetails(h, value.id, st),
              LAMBDA r : IF r.ok THEN Leaf(st, value, currentDepth, r.v)
                         ELSE Fail(st, value, currentDepth, r.msg))
    ELSE IF value.t = "nan" THEN Leaf(st, value, currentDepth, Str("NaN"))
    ELSE IF value.t = "infinity"
    THEN Leaf(st, value, currentDepth, Str(IF value.pos THEN "Infinity" ELSE "-Infinity"))
    ELSE IF value.t = "number" THEN Leaf(st, value, currentDepth, value)
    ELSE IF value.t = "symbol" THEN Leaf(st, value, currentDepth, SymbolTag(value))
    ELSE IF TypeOf(h, value) \notin {"object", "function"} THEN Leaf(st, value, currentDepth, value)
    ELSE LET id == value.id
             o == h[id]
         IN
    IF SeenHas(st, id) THEN Leaf(st, value, currentDepth, Str(CircularMarker))
    ELSE IF o.kind = "Promise"
    THEN Leaf(st, value, currentDepth,
              PlainObj(<< Field("__type", Str("Promise")), Field("state", Str("pending")) >>))
    ELSE IF o.kind = "Date"
    THEN IF o.valid
         THEN Leaf(st, value, currentDepth,
                   PlainObj(<< Field("__type", Str("Date")),
                               Field("value", Str("1970-01-01T00:00:00.000Z")) >>))
         ELSE Fail(st, value, currentDepth, InvalidTimeMsg)
    ELSE IF o.kind = "RegExp"
    THEN Leaf(st, value, currentDepth,
              PlainObj(<< Field("__type", Str("RegExp")),
                          Field("source", Get(h, id, "source", st).v),
                          Field("flags", Get(h, id, "flags", st).v) >>))
    ELSE IF o.kind \in {"Node", "Element"}
    THEN Leaf(st, value, currentDepth,
              PlainObj(<< Field("__type", Str("DOMNode")),
                          Field("nodeName", Get(h, id, "nodeName", st).v),
                          Field("nodeType", Get(h, id, "nodeType", st).v),
                          Field("id", OrElse(Get(h, id, "id", st).v, Undefined)),
                          Field("className", OrElse(Get(h, id, "className", st).v, Undefined)),
                          Field("innerHTML", IF o.kind = "Element"
                                             THEN Get(h, id, "innerHTML", st).v
                                             ELSE Undefined) >>))
    ELSE IF o.kind = "Function"
    THEN IF o.strThrows THEN Fail(st, value, currentDepth, GetterMsg)
         ELSE Leaf(st, value, currentDepth,
                   PlainObj(<< Field("__type", Str("Function")),
                               Field("name", OrElse(Get(h, id, "name", st).v, Str("anonymous"))),
                               Field("source", FunctionSource(o)) >>))
    ELSE LET st1 == Note(SeenAdd(st, id), value, currentDepth, Descend) IN
    IF o.kind = "Array" THEN MapItems(h, maxDepth, id, 1, currentDepth, st1, << >>)
    ELSE IF TypeOf(h, value) = "object"
    THEN SerializeProps(h, maxDepth, id, 1, currentDepth, st1, << >>)
    ELSE Ok(Str(UnknownMarker), st1)

\* The outcome of one top-level call: raised tells whether an exception left
\* serializeForPostMessage; v is the returned value otherwise.
Caught(h, arg, r) ==
    Bind(StringOf(h, arg, {}),
         LAMBDA coerced :
             IF ~coerced.ok
             THEN [v |-> Undefined, st |-> r.st, msg |-> coerced.msg, raised |-> TRUE,
                   caught |-> TRUE]
             ELSE [v |-> PlainObj(<< Field("__type", Str("SerializationError")),
                                     Field("message", Str(r.msg)),
                                     Field("value", Str(coerced.v)) >>),
                   st |-> r.st, msg |-> "", raised |-> FALSE, caught |-> TRUE])

serializeForPostMessage(h, arg, depth, maxDepth, prev) ==
    Bind(serialize(h, maxDepth, arg, depth,
                   [calls |-> 0, log |-> << >>, seen |-> NewWeakSet(prev)]),
         LAMBDA r :
             IF r.ok
             THEN [v |-> r.v, st |-> r.st, msg |-> "", raised |-> FALSE, caught |-> FALSE]
             ELSE Caught(h, arg, r))

\* ------------------------------------------------------------------------
\* The page's objects.  A heap is a chain of composites 1 -> 2 -> ... ->
\* NumObjs -> the Error object, plus one further property x (on a composite)
\* or code (on the Error object) that may hold any value, may point anywhere
\* in the graph, or may be an accessor whose getter throws; one composite may
\* be an array, or have a constructor getter that throws, with or without a
\* toString that throws.
\* ------------------------------------------------------------------------
MkObj(kind, props, attrs) ==
    [kind |-> kind, props |-> props, attrs |-> attrs, strThrows |-> FALSE,
     valid |-> TRUE, ctor |-> "default", srcLen |-> 0]

GetterThrows == [t |-> "getter-throws"]

ExtraValues ==
    {GetterThrows, Num(42), Sym("tag")} \cup {Ref(i) : i \in Composites}
    \cup {Ref(ErrId), Ref(DateId), Ref(BadDateId), Ref(FnId), Ref(NodeId)}

SpecialKinds == {"array", "ctor-throws", "ctor-and-toString-throw"}

HeapParams ==
    [src : Composites \cup {ErrId}, xv : ExtraValues, xFirst : BOOLEAN,
     special : Composites, sk : SpecialKinds]
    \cup [src : Composites \cup {ErrId}, xv : ExtraValues, xFirst : BOOLEAN,
          special : {0}, sk : {"array"}]

ExtraProp(p, key) == IF p.xv = GetterThrows THEN ThrowingProp(key) ELSE Prop(key, p.xv)

WithExtra(p, id, key, props) ==
    IF p.src # id THEN props
    ELSE IF p.xFirst THEN << ExtraProp(p, key) >> \o props
    ELSE props \o << ExtraProp(p, key) >>

CompositeObj(p, i) ==
    [kind |-> IF p.special = i /\ p.sk = "array" THEN "Array" ELSE "Object",
     props |-> WithExtra(p, i, "x",
                   << Prop("next", IF i < NumObjs THEN Ref(i + 1) ELSE Ref(ErrId)) >>),
     attrs |-> << >>,
     strThrows |-> p.special = i /\ p.sk = "ctor-and-toString-throw",
     valid |-> TRUE,
     ctor |-> IF p.special = i /\ p.sk # "array" THEN "throws" ELSE "default",
     srcLen |-> 0]

HostObj(p, id) ==
    CASE id = ErrId ->
            MkObj("Error", WithExtra(p, ErrId, "code",
                      << Prop("stack", Str("Error: failure\n    at <anonymous>")),
                         Prop("message", Str("failure")) >>), << >>)
      [] id = DateId -> MkObj("Date", << >>, << >>)
      [] id = BadDateId -> [MkObj("Date", << >>, << >>) EXCEPT !.valid = FALSE]
      [] id = FnId ->
            [MkObj("Function", << Prop("length", Num(0)), Prop("name", Str("f")) >>, << >>)
                EXCEPT !.srcLen = 250]
      [] id = NodeId ->
            MkObj("Element", << >>,
                  << Prop("nodeName", Str("DIV")), Prop("nodeType", Num(1)),
                     Prop("id", Str("")), Prop("className", Str("box")),
                     Prop("innerHTML", Str("<b>x</b>")) >>)
      [] id = RegId ->
            MkObj("RegExp", << Prop("lastIndex", Num(0)) >>,
                  << Prop("source", Str("ab+c")), Prop("flags", Str("gi")) >>)
      [] OTHER -> MkObj("Promise", << >>, << >>)

MkHeap(p) == [id \in Ids |-> IF id \in Composites THEN CompositeObj(p, id) ELSE HostObj(p, id)]

Heaps == {MkHeap(p) : p \in HeapParams}

\* A small family for the runs that vary the console call instead.
ConsoleHeaps ==
    {MkHeap(p) : p \in [src : {1}, xv : {GetterThrows, Num(42)}, xFirst : {TRUE},
                        special : {0, 1}, sk : SpecialKinds]}

Primitives ==
    {Undefined, Null, Num(42), NaNVal, Infinity(TRUE), Infinity(FALSE), Str("hi"),
     Bool(TRUE), Sym("tag"), Sym("")}

Roots == Primitives \cup {Ref(i) : i \in Ids}

ConsoleRoots == {Ref(1), Ref(ErrId), Num(42)}

Levels == {"log", "error", "warn", "info", "debug", "trace"}
BasicLevels == {"log", "error", "warn", "info"}
ConsoleLevels == {"log", "error"}

ArgLists == UNION {[1..n -> ConsoleRoots] : n \in 1..MaxArgs}

\* ------------------------------------------------------------------------
\* State
\* ------------------------------------------------------------------------
VARIABLES
    heap,       \* the page's objects
    hasParent,  \* window.parent && window.parent !== window
    seen,       \* what the WeakSet of the latest top-level call held at its end
    last        \* the latest handler run: what it was given, produced and emitted

vars == << heap, hasParent, seen, last >>

NoRun ==
    [handler |-> "none", level |-> "", args |-> << >>, results |-> << >>,
     emitted |-> << >>, escaped |-> FALSE, sendFailed |-> FALSE]

Original(level, args) == [e |-> "original", level |-> level, args |-> args]
OriginalError(text) == [e |-> "original.error", level |-> "error", text |-> text]
Posted(msg) == [e |-> "postMessage", msg |-> msg]

\* args.map(arg => serializeForPostMessage(arg)): one top-level call per
\* argument, left to right, until one of them raises.
RECURSIVE MapArgs(_, _, _, _, _)
MapArgs(h, args, i, prev, acc) ==
    IF i > Len(args) THEN acc
    ELSE Bind(serializeForPostMessage(h, args[i], DefaultDepth, DefaultMaxDepth, prev),
              LAMBDA r : IF r.raised THEN Append(acc, r)
                         ELSE MapArgs(h, args, i + 1, r.st.seen, Append(acc, r)))

Raised(results) == results # << >> /\ results[Len(results)].raised

Values(results) == [i \in 1..Len(results) |-> results[i].v]

SeenAfter(results, prev) == IF results = << >> THEN prev ELSE results[Len(results)].st.seen

ConsoleMessage(level, serializedArgs) ==
    [level |-> level, args |-> serializedArgs, type |-> "console",
     timestamp |-> "2024-01-01T00:00:00.000Z",
     callSite |-> "    at caller (page.js:1:1)", url |-> "https://page.example/"]

\* interceptConsole(level)(...args), src/main.js
InterceptConsole(level, args, sendFails) ==
    \E results \in {MapArgs(heap, args, 1, seen, << >>)} :
    LET failed == Raised(results) \/ (hasParent /\ sendFails)
        tried == << Original(level, args) >>
        sent == IF hasParent /\ ~failed
                THEN << Posted(ConsoleMessage(level, Values(results))) >>
                ELSE << >>
        recovery == IF failed
                    THEN << Original(level, args),
                            OriginalError("Console interception error:") >>
                    ELSE << >>
    IN /\ last' = [handler |-> "console", level |-> level, args |-> args,
                   results |-> results, emitted |-> tried \o sent \o recovery,
                   escaped |-> FALSE,
                   sendFailed |-> ~Raised(results) /\ hasParent /\ sendFails]
       /\ seen' = SeenAfter(results, seen)
       /\ UNCHANGED << heap, hasParent >>

EventMessage(tag, field, details) ==
    [level |-> "error",
     args |-> << PlainObj(<< Field("__type", Str(tag)), Field(field, details) >>) >>,
     type |-> "console", timestamp |-> "2024-01-01T00:00:00.000Z",
     url |-> "https://page.example/"]

\* the listener of 'error' (tag UnhandledError) and of 'unhandledrejection'
\* (tag UnhandledPromiseRejection), src/main.js
Listener(handler, tag, field, text, value, sendFails) ==
    \E results \in {MapArgs(heap, << value >>, 1, seen, << >>)} :
    LET failed == Raised(results) \/ (hasParent /\ sendFails)
        sent == IF hasParent /\ ~failed
                THEN << Posted(EventMessage(tag, field, results[1].v)) >>
                ELSE << >>
        recovery == IF failed THEN << OriginalError(text) >> ELSE << >>
    IN /\ last' = [handler |-> handler, level |-> "error", args |-> << value >>,
                   results |-> results, emitted |-> sent \o recovery, escaped |-> FALSE,
                   sendFailed |-> ~Raised(results) /\ hasParent /\ sendFails]
       /\ seen' = SeenAfter(results, seen)
       /\ UNCHANGED << heap, hasParent >>

OnError(value, sendFails) ==
    Listener("error", "UnhandledError", "error", "Error event handling failed:",
             value, sendFails)

OnUnhandledRejection(value, sendFails) ==
    Listener("unhandledrejection", "UnhandledPromiseRejection", "reason",
             "Promise rejection handling failed:", value, sendFails)

\* ------------------------------------------------------------------------
\* The earlier variant of the script, src/unnamed/part_000: no depth bound,
\* Errors without their extra properties, a string for a failed top-level
\* call, and a console wrapper that guards the send alone.
\* ------------------------------------------------------------------------
RECURSIVE serializeBasic(_, _, _)
RECURSIVE MapItemsBasic(_, _, _, _, _)
RECURSIVE SerializePropsBasic(_, _, _, _, _)

MapItemsBasic(h, id, i, st, acc) ==
    IF i > Len(h[id].props) THEN Ok(PlainSeq(acc), st)
    ELSE LET p == h[id].props[i] IN
         IF p.thr THEN Thrown(GetterMsg, st)
         ELSE Bind(serializeBasic(h, p.v, st),
                   LAMBDA r : IF ~r.ok THEN r
                              ELSE MapItemsBasic(h, id, i + 1, r.st, Append(acc, r.v)))

SerializePropsBasic(h, id, i, st, obj) ==
    IF i > Len(h[id].props) THEN Ok(PlainObj(obj), st)
    ELSE LET p == h[id].props[i] IN
         IF p.thr
         THEN SerializePropsBasic(h, id, i + 1, st,
                                  SetField(obj, p.k, Str("[Unable to serialize]")))
         ELSE IF p.v.t = "symbol"
         THEN SerializePropsBasic(h, id, i + 1, st, SetField(obj, p.k, SymbolTag(p.v)))
         ELSE Bind(serializeBasic(h, p.v, st),
                   LAMBDA r :
                       SerializePropsBasic(h, id, i + 1, r.st,
                           SetField(obj, p.k,
                                    IF r.ok THEN r.v ELSE Str("[Unable to serialize]"))))

serializeBasic(h, value, st0) ==
    LET st == Enter(st0) IN
    IF value.t \in {"null", "undefined"} THEN Leaf(st, value, 0, value)
    ELSE IF value.t = "symbol" THEN Leaf(st, value, 0, SymbolTag(value))
    ELSE IF TypeOf(h, value) \notin {"object", "function"} THEN Leaf(st, value, 0, value)
    ELSE LET id == value.id
             o == h[id]
         IN
    IF o.kind = "Error"
    THEN LET name == Get(h, id, "name", st)
             message == Get(h, id, "message", st)
             stack == Get(h, id, "stack", st)
         IN IF ~name.ok \/ ~message.ok \/ ~stack.ok THEN Fail(st, value, 0, GetterMsg)
            ELSE Leaf(st, value, 0,
                      PlainObj(<< Field("__type", Str("Error")), Field("name", name.v),
                                  Field("message", message.v), Field("stack", stack.v) >>))
    ELSE IF o.kind = "Date"
    THEN IF o.valid
         THEN Leaf(st, value, 0,
                   PlainObj(<< Field("__type", Str("Date")),
                               Field("value", Str("1970-01-01T00:00:00.000Z")) >>))
         ELSE Fail(st, value, 0, InvalidTimeMsg)
    ELSE IF o.kind \in {"Node", "Element"}
    THEN Leaf(st, value, 0,
              PlainObj(<< Field("__type", Str("DOMNode")),
                          Field("nodeName", Get(h, id, "nodeName", st).v),
                          Field("nodeType", Get(h, id, "nodeType", st).v) >>))
    ELSE IF o.kind = "Function"
    THEN Leaf(st, value, 0,
              PlainObj(<< Field("__type", Str("Function")),
                          Field("name", OrElse(Get(h, id, "name", st).v, Str("anonymous"))) >>))
    ELSE IF SeenHas(st, id) THEN Leaf(st, value, 0, Str(CircularMarker))
    ELSE LET st1 == Note(SeenAdd(st, id), value, 0, Descend) IN
    IF o.kind = "Array" THEN MapItemsBasic(h, id, 1, st1, << >>)
    ELSE IF TypeOf(h, value) = "object" THEN SerializePropsBasic(h, id, 1, st1, << >>)
    ELSE Ok(Str(UnknownMarker), st1)

serializeForPostMessageBasic(h, arg, prev) ==
    Bind(serializeBasic(h, arg, [calls |-> 0, log |-> << >>, seen |-> NewWeakSet(prev)]),
         LAMBDA r :
             IF r.ok
             THEN [v |-> r.v, st |-> r.st, msg |-> "", raised |-> FALSE, caught |-> FALSE]
             ELSE [v |-> Str("[Serialization Error]"), st |-> r.st, msg |-> "",
                   raised |-> FALSE, caught |-> TRUE])

RECURSIVE MapArgsBasic(_, _, _, _, _)
MapArgsBasic(h, args, i, prev, acc) ==
    IF i > Len(args) THEN acc
    ELSE Bind(serializeForPostMessageBasic(h, args[i], prev),
              LAMBDA r : MapArgsBasic(h, args, i + 1, r.st.seen, Append(acc, r)))

BasicMessage(level, serializedArgs) ==
    [level |-> level, args |-> serializedArgs, type |-> "console"]

\* interceptConsole(level)(...args), src/unnamed/part_000
InterceptConsoleBasic(level, args, sendFails) ==
    \E results \in {MapArgsBasic(heap, args, 1, seen, << >>)} :
    LET sent == IF hasParent /\ ~sendFails
                THEN << Posted(BasicMessage(level, Values(results))) >>
                ELSE << >>
    IN /\ last' = [handler |-> "console", level |-> level, args |-> args,
                   results |-> results, emitted |-> << Original(level, args) >> \o sent,
                   escaped |-> FALSE, sendFailed |-> hasParent /\ sendFails]
       /\ seen' = SeenAfter(results, seen)
       /\ UNCHANGED << heap, hasParent >>

\* ------------------------------------------------------------------------
\* Specifications
\* ------------------------------------------------------------------------
\* Spec: every input graph of the family, and from each one handler run on
\* one value.
Init ==
    /\ heap \in Heaps
    /\ hasParent = TRUE
    /\ seen = {}
    /\ last = NoRun

ConsoleLog ==
    last = NoRun /\ \E value \in Roots : InterceptConsole("log", << value >>, FALSE)
ErrorEvent == last = NoRun /\ \E value \in Roots : OnError(value, FALSE)
RejectionEvent == last = NoRun /\ \E value \in Roots : OnUnhandledRejection(value, FALSE)

Next == ConsoleLog \/ ErrorEvent \/ RejectionEvent

Spec == Init /\ [][Next]_vars

\* SpecConsole: few graphs, every level, argument list and delivery outcome.
InitConsole ==
    /\ heap \in ConsoleHeaps
    /\ hasParent \in BOOLEAN
    /\ seen = {}
    /\ last = NoRun

ConsoleCall ==
    \E level \in ConsoleLevels, args \in ArgLists, sendFails \in BOOLEAN :
        InterceptConsole(level, args, sendFails)
ErrorEventConsole == \E value \in ConsoleRoots, sendFails \in BOOLEAN : OnError(value, sendFails)
RejectionEventConsole ==
    \E value \in ConsoleRoots, sendFails \in BOOLEAN : OnUnhandledRejection(value, sendFails)

NextConsole == ConsoleCall \/ ErrorEventConsole \/ RejectionEventConsole

SpecConsole == InitConsole /\ [][NextConsole]_vars

\* SpecBasic: the console wrapper of the earlier variant, on the same inputs.
ConsoleCallBasic ==
    \E level \in BasicLevels, args \in ArgLists, sendFails \in BOOLEAN :
        InterceptConsoleBasic(level, args, sendFails)

NextBasic == ConsoleCallBasic

SpecBasic == InitConsole /\ [][NextBasic]_vars

\* ------------------------------------------------------------------------
\* Properties
\* ------------------------------------------------------------------------
Runs == 1..Len(last.results)
Result(i) == last.results[i]
Log(i) == last.results[i].st.log

\* an array or plain object that line 47 neither takes for an Error nor fails on
IsComposite(id) == heap[id].kind \in {"Object", "Array"} /\ heap[id].ctor = "default"

IsSerializationError(out) ==
    /\ out.t = "plain"
    /\ HasField(out, "__type") /\ FieldOf(out, "__type") = Str("SerializationError")
    /\ HasField(out, "message") /\ FieldOf(out, "message").t = "string"
    /\ HasField(out, "value") /\ FieldOf(out, "value").t = "string"

\* C1: serializeForPostMessage never raises to its caller, whatever the input;
\* when the inner serialize throws at top level the call returns a record
\* tagged SerializationError with the failure message and String(input).
C1_NeverRaises ==
    \A i \in Runs :
        /\ ~Result(i).raised
        /\ Result(i).caught => IsSerializationError(Result(i).v)

RECURSIVE IsTransportValue(_)
IsTransportValue(out) ==
    CASE out.t \in {"undefined", "null", "number", "nan", "infinity", "string", "boolean"} -> TRUE
      [] out.t = "plain" -> \A i \in 1..Len(out.f) : IsTransportValue(out.f[i].v)
      [] out.t = "list" -> \A i \in 1..Len(out.e) : IsTransportValue(out.e[i])
      [] OTHER -> FALSE

\* C2: every node of the tree serializeForPostMessage returns is a primitive,
\* a string, a plain mapping or a plain sequence; no symbol and no object of
\* the input appears in it, the extra fields of an Error record included.
C2_OnlyPlainData == \A i \in Runs : ~Result(i).raised => IsTransportValue(Result(i).v)

Earlier(i, j) == \E k \in 1..(j - 1) : Log(i)[k].v = Log(i)[j].v

\* C3 as stated: within one top-level call, the first visit of an object is
\* serialized normally and every later visit of the same object yields
\* '[Circular Reference]'.
C3_RevisitIsCircular ==
    \A i \in Runs : \A j \in 1..Len(Log(i)) :
        Log(i)[j].v.t = "ref" =>
            IF Earlier(i, j) THEN Log(i)[j].out = Str(CircularMarker)
            ELSE Log(i)[j].out # Str(CircularMarker)

Shallow(i) == {j \in 1..Len(Log(i)) : Log(i)[j].d <= DefaultMaxDepth}

\* C3 as amended: within one top-level call, of the visits at depth at most
\* maxDepth of one array or plain object, the first descends into it and every
\* later one yields '[Circular Reference]' without descending again.
C3_CompositeRevisitIsCircular ==
    \A i \in Runs : \A j \in Shallow(i) :
        (Log(i)[j].v.t = "ref" /\ IsComposite(Log(i)[j].v.id)) =>
            IF \E k \in Shallow(i) : k < j /\ Log(i)[k].v = Log(i)[j].v
            THEN Log(i)[j].out = Str(CircularMarker)
            ELSE Log(i)[j].out = Descend

C3_Witness ==
    \E i \in Runs : \E j, k \in Shallow(i) :
        /\ j < k /\ Log(i)[j].v = Log(i)[k].v
        /\ Log(i)[j].out = Descend /\ Log(i)[k].out = Str(CircularMarker)
        /\ Log(i)[k].d = Log(i)[j].d

RECURSIVE EdgesFrom(_)
EdgesFrom(id) ==
    IF id = 0 THEN 0
    ELSE (IF heap[id].kind \in {"Object", "Array"} THEN Len(heap[id].props) ELSE 0)
         + EdgesFrom(id - 1)

\* C4: a top-level call ends on every graph, cyclic ones included: no array or
\* plain object is descended into twice, and serialize is invoked at most once
\* for the root and once per edge of the graph.
C4_DescendsOnce ==
    \A i \in Runs :
        /\ \A j, k \in 1..Len(Log(i)) :
              (Log(i)[j].out = Descend /\ Log(i)[k].out = Descend
                  /\ Log(i)[j].v = Log(i)[k].v) => j = k
        /\ Result(i).st.calls <= 1 + EdgesFrom(NumObjs)
        /\ Result(i).st.calls = Len(Log(i))

C4_Witness ==
    /\ last.args = << Ref(1) >>
    /\ \E n \in 1..Len(heap[1].props) : heap[1].props[n] = Prop("x", Ref(1))
    /\ IsComposite(1) /\ heap[1].kind = "Object"
    /\ ~Result(1).raised /\ FieldOf(Result(1).v, "x") = Str(CircularMarker)

\* C5: with the root at depth 0 and maxDepth 3, a value reached deeper than
\* maxDepth is replaced by '[Max Depth Exceeded]' and nothing below it is
\* visited; no value at depth at most maxDepth is replaced by that marker.
C5_DepthBound ==
    \A i \in Runs : \A j \in 1..Len(Log(i)) :
        /\ Log(i)[j].d <= DefaultMaxDepth + 1
        /\ Log(i)[j].d > DefaultMaxDepth <=> Log(i)[j].out = Str(DepthMarker)

C5_Witness ==
    \E i \in Runs : \E j, k \in 1..Len(Log(i)) :
        /\ Log(i)[j].d = DefaultMaxDepth /\ Log(i)[j].out = Descend
        /\ Log(i)[k].d = DefaultMaxDepth + 1 /\ Log(i)[k].out = Str(DepthMarker)
        /\ ~Result(i).caught

Children(out) ==
    IF out.t = "list" THEN out.e
    ELSE IF out.t = "plain" THEN [n \in 1..Len(out.f) |-> out.f[n].v]
    ELSE << >>

RECURSIVE Isolated(_, _)
Isolated(value, out) ==
    IF out \in {Str(CircularMarker), Str(DepthMarker)} THEN TRUE
    ELSE IF value.t = "number" THEN out = value
    ELSE IF value.t # "ref" THEN TRUE
    ELSE IF ~IsComposite(value.id) THEN TRUE
    ELSE LET props == heap[value.id].props
             kids == Children(out)
         IN /\ out.t = (IF heap[value.id].kind = "Array" THEN "list" ELSE "plain")
            /\ Len(kids) = Len(props)
            /\ \A n \in 1..Len(props) :
                  IF props[n].thr THEN kids[n].t = "string"
                  ELSE Isolated(props[n].v, kids[n])

\* C6: when reading or serializing one child of an array or plain object
\* throws, that child alone is replaced by a fallback string; the siblings keep
\* their serialized values and the composite itself is still returned.
C6_ChildFailureIsolated ==
    \A i \in Runs :
        (last.args[i].t = "ref" /\ IsComposite(last.args[i].id)) =>
            ~Result(i).raised /\ Isolated(last.args[i], Result(i).v)

\* C7: an Error is serialized as a record tagged Error with name, message,
\* stack and every other own property; an extra property whose read throws
\* becomes '[Unable to access property]' and the other fields stay.
C7_ErrorRecord ==
    \A i \in Runs : \A j \in Shallow(i) :
        Log(i)[j].v = Ref(ErrId) =>
            LET out == Log(i)[j].out IN
            /\ out.t = "plain"
            /\ \A key \in {"__type", "name", "message", "stack"} : HasField(out, key)
            /\ FieldOf(out, "__type") = Str("Error")
            /\ FieldOf(out, "name") = Str("Error")
            /\ FieldOf(out, "message") = OwnProp(heap, ErrId, "message").v
            /\ FieldOf(out, "stack") = OwnProp(heap, ErrId, "stack").v
            /\ \A n \in 1..Len(heap[ErrId].props) :
                  LET p == heap[ErrId].props[n] IN
                  p.k \notin {"name", "message", "stack"} =>
                      /\ HasField(out, p.k)
                      /\ FieldOf(out, p.k) = IF p.thr THEN Str(AccessMarker) ELSE p.v

C7_Witness ==
    /\ last.args = << Ref(ErrId) >>
    /\ HasOwn(heap, ErrId, "code") /\ OwnProp(heap, ErrId, "code").thr
    /\ ~Result(1).raised /\ FieldOf(Result(1).v, "code") = Str(AccessMarker)
    /\ FieldOf(Result(1).v, "message") = Str("failure")

DeliveryFailed == last.handler = "console" /\ ~Raised(last.results)
                      /\ (~hasParent \/ last.sendFailed)

\* C8: a delivery failure of an intercepted console call (no parent context,
\* or postMessage throwing) is swallowed silently: nothing reaches the caller
\* and nothing more is emitted because of it.
C8_DeliveryFailureSilent ==
    DeliveryFailed =>
        /\ ~last.escaped
        /\ last.emitted = << Original(last.level, last.args) >>

\* C9: the cycle-tracking set is empty at the start of every top-level call:
\* '[Circular Reference]' is only ever returned for an object the same call
\* descended into before, so the same object given twice, in one console call
\* or in two, is serialized the same way both times.  C9_EachCallAlone is the
\* part about one handler run, C9_FreshSeenPerCall adds the run after it.
C9_EachCallAlone ==
    \A i \in Runs :
        /\ \A j \in 1..Len(Log(i)) :
              Log(i)[j].out = Str(CircularMarker) =>
                  \E k \in 1..(j - 1) : Log(i)[k].v = Log(i)[j].v /\ Log(i)[k].out = Descend
        /\ \A k \in Runs : last.args[i] = last.args[k] => Result(i).v = Result(k).v
        /\ Result(i).st.seen = {Log(i)[j].v.id : j \in {n \in 1..Len(Log(i)) : Log(i)[n].out = Descend}}

C9_FreshSeenPerCall ==
    /\ []C9_EachCallAlone
    /\ [][(last.handler # "none" /\ last'.args = last.args)
              => Values(last'.results) = Values(last.results)]_vars

C9_Witness ==
    /\ last.handler = "console" /\ last.args = << Ref(1), Ref(1) >>
    /\ IsComposite(1) /\ 1 \in seen
    /\ Len(last.results) = 2 /\ Result(2).v.t \in {"plain", "list"}
    /\ Result(1).v = Result(2).v

Originals == {n \in 1..Len(last.emitted) : last.emitted[n].e = "original"}
Posts == {n \in 1..Len(last.emitted) : last.emitted[n].e = "postMessage"}

\* C10: every call of an intercepted console method invokes the original
\* method exactly once, with the original arguments, before anything is posted.
C10_OriginalOnceAndFirst ==
    last.handler = "console" =>
        /\ Cardinality(Originals) = 1
        /\ \A n \in Originals : last.emitted[n] = Original(last.level, last.args)
        /\ \A n \in Originals, m \in Posts : n < m

====
